---- MODULE Spec2Model ----
(***************************************************************************)
(* The edit-compile-preview pipeline of the playground server.             *)
(*                                                                         *)
(* Spec      the server of src/unnamed/part_002 (transpile draft): the     *)
(*           fetch handler and the websocket message handler.              *)
(* SpecExec  the server of src/src/index.ts lines 1-119 (exec draft): the  *)
(*           same fetch handler, and the message handler that spawns tsc.  *)
(*                                                                         *)
(* JavaScript runs one handler at a time until it reaches an await; the    *)
(* server does not wait for the promise of one message handler before it   *)
(* dispatches the next message or request.  Every action below is one such *)
(* run-to-completion segment, ending where the code awaits.                *)
(***************************************************************************)
EXTENDS Integers, Sequences, FiniteSets, TLC

VARIABLES
    files,      \* the disk: <<user, file name>> -> [exists, text]
    sessions,   \* the registry: token -> identity of the bag object
    nextBag,    \* identity given to the next bag object created
    handlers,   \* websocket message handlers, in order of message arrival
    outbox,     \* per connection, the messages the server sent on it
    requests,   \* fetch handlers, in order of request arrival
    closed,     \* the connections that have closed
    clients,    \* per connection, the editor page at its other end
    toServer    \* per connection, the messages sent by the page and not yet arrived

vars == <<files, sessions, nextBag, handlers, outbox, requests, closed, clients, toServer>>

\* the browser side
clientVars == <<clients, toServer>>

----------------------------------------------------------------------------
(* Bounds and input sets *)

\* HTTP requests plus websocket messages the server receives in one run
MaxEvents == 2

\* handlers (of messages and of requests) suspended at an await at one time
MaxRunning == 2

\* A user identifier is a string, held as its '/'-separated segments.

\* the value of a field the JSON text does not carry; `${undefined}` in a
\* template string gives the text "undefined"
Undefined == <<"undefined">>

\* let userId, part_002 line 22 (the uuid, shortened)
userId == <<"f8f4">>

Users == {userId, <<"u1">>}

\* the identifier "u1/../f8f4": another string than userId
DotDotUser == <<"u1", "..", "f8f4">>

\* A line is a sequence of characters; "x" stands for a token tsc rejects.
NL == "\n"
TwoLines == << <<"a">>, <<"b">> >>
LineSeqs == { <<>>, << <<>> >>, << <<"a">> >>, << <<"x">> >>, TwoLines }

----------------------------------------------------------------------------
(* Text *)

\* Array.prototype.join("\n")
RECURSIVE join(_)
join(lines) ==
    IF Len(lines) = 0 THEN <<>>
    ELSE IF Len(lines) = 1 THEN lines[1]
    ELSE lines[1] \o <<NL>> \o join(Tail(lines))

\* String.prototype.split("\n"), scanning with the current piece in cur
RECURSIVE splitFrom(_, _)
splitFrom(text, cur) ==
    IF text = <<>> THEN <<cur>>
    ELSE IF Head(text) = NL THEN <<cur>> \o splitFrom(Tail(text), <<>>)
    ELSE splitFrom(Tail(text), Append(cur, Head(text)))

split(text) == splitFrom(text, <<>>)

\* The source text has a syntax error.
HasSyntaxError(text) == \E i \in 1..Len(text) : text[i] = "x"

\* a compiler whose output depends on how many messages the server has seen
transpileAmbient(code) == <<"J">> \o code \o (IF Len(handlers) > 1 THEN <<"2">> ELSE <<>>)

\* typescript's transpile(code, undefined): returns the emitted text for every
\* input; syntax errors are diagnostics, which this call does not collect, and
\* nothing is thrown.  "J" marks the emitted form of the input text.
transpile(code) == <<"J">> \o code

----------------------------------------------------------------------------
(* Disk *)

FileNames == {"script.ts", "script.js", "balder.js", "index.html"}

\* A file: whether it exists and its text.  While a write has opened it and
\* not yet written it, partial holds and prev is the text it had before (as a
\* set: empty when it did not exist).
NoFile == [exists |-> FALSE, text |-> <<>>, partial |-> FALSE, prev |-> {}]

File(text) == [exists |-> TRUE, text |-> text, partial |-> FALSE, prev |-> {}]

Truncated(f) ==
    [exists |-> TRUE, text |-> <<>>, partial |-> TRUE,
     prev |-> IF f.partial THEN f.prev ELSE IF f.exists THEN {f.text} ELSE {}]

\* The directory a path names: "" and "." segments drop out, ".." drops the
\* segment before it.
RECURSIVE NormalizeFrom(_, _)
NormalizeFrom(segs, dir) ==
    IF segs = <<>> THEN dir
    ELSE IF Head(segs) \in {"", "."} THEN NormalizeFrom(Tail(segs), dir)
    ELSE IF Head(segs) = ".."
         THEN NormalizeFrom(Tail(segs), IF dir = <<>> THEN dir ELSE SubSeq(dir, 1, Len(dir) - 1))
    ELSE NormalizeFrom(Tail(segs), Append(dir, Head(segs)))

Normalize(segs) == NormalizeFrom(segs, <<>>)

\* the file `${import.meta.dir}/preview/${user}/${name}` is
Path(user, name) == <<Normalize(user), name>>

\* Bun.write(path, text) writes the file in place: it opens the path, which
\* creates or empties the file, and then writes the text.
BunOpen(fs, path) == [fs EXCEPT ![path] = Truncated(@)]

BunWrite(fs, path, text) == [fs EXCEPT ![path] = File(text)]

----------------------------------------------------------------------------
(* Websocket messages *)

\* The message text after JSON.parse.  json = "garbage": the text is no JSON;
\* "object": an object with the fields below.
Msg(json, user, hasContents, fileContents, resume, uid) ==
    [json |-> json, user |-> user, hasContents |-> hasContents,
     fileContents |-> fileContents, resume |-> resume, userId |-> uid]

Garbage == Msg("garbage", Undefined, FALSE, <<>>, FALSE, Undefined)
UnknownShape == Msg("object", Undefined, FALSE, <<>>, FALSE, Undefined)

EditMsgs ==
    { Msg("object", <<"u1">>, TRUE, l, FALSE, Undefined) : l \in LineSeqs \ {TwoLines} }
    \cup { Msg("object", userId, TRUE, << <<"a">> >>, FALSE, Undefined),
           Msg("object", Undefined, TRUE, << <<"a">> >>, FALSE, Undefined),
           Msg("object", DotDotUser, TRUE, << <<"b">> >>, FALSE, Undefined) }

ResumeMsgs == { Msg("object", Undefined, FALSE, <<>>, TRUE, u) : u \in Users }

EditResumeMsgs == { Msg("object", <<"u1">>, TRUE, << <<"a">> >>, TRUE, <<"u1">>) }

Messages == {Garbage, UnknownShape} \cup EditMsgs \cup ResumeMsgs \cup EditResumeMsgs

\* What arrives: every message on connection 1, and on connection 2 (a second
\* tab of user u1) an edit and a resume.
Arrivals ==
    { <<1, m>> : m \in Messages }
    \cup { <<2, m>> : m \in { Msg("object", <<"u1">>, TRUE, TwoLines, FALSE, Undefined),
                              Msg("object", Undefined, FALSE, <<>>, TRUE, <<"u1">>) } }

\* monaco.js line 15: the editor's first value (the text, shortened)
helloWorld == <<"h">>

\* The page of static/js/monaco.js and ws.js when its scripts have run: the
\* editor holds its first value and onopen has not fired yet.  seen counts the
\* server's messages that onmessage has handled, refetches the times the page
\* reloaded the preview frame, reloadsSeen the reloads it was told,
\* pending the frame loads not yet requested from the server.
NewClient ==
    [opened |-> FALSE, editor |-> helloWorld, seen |-> 0,
     refetches |-> 0, reloadsSeen |-> 0, pending |-> 0]

IsEdit(m) == m.json = "object" /\ m.hasContents
IsResume(m) == m.json = "object" /\ m.resume

\* A handler has run to its end, by returning or by throwing
Finished(h) == h.pc \in {"done", "threw"} /\ h.tsc \in {"none", "exited"}

\* One running message handler: its connection, its message, where it is suspended,
\* its local `code`, the state of the tsc process it started, and for the record
\* what it has written and sent so far and whether every earlier handler had
\* finished when its message arrived.
Handler(c, m, pc, code) ==
    [conn |-> c, msg |-> m, pc |-> pc, code |-> code,
     wrote |-> {}, reloads |-> 0, replies |-> 0, tsc |-> "none", out |-> <<>>,
     idle |-> \A h \in DOMAIN handlers : Finished(handlers[h])]

\* the connections open at the start
Conns == {1, 2}

\* what has happened so far: the messages and requests that arrived after the
\* start, the connections that closed
Events ==
    Len(handlers) + (Len(requests) - Cardinality(Conns)) + Cardinality(closed)

\* the handlers that have started and not run to their end
Running ==
    Cardinality({ h \in DOMAIN handlers : ~Finished(handlers[h]) })
    + Cardinality({ r \in DOMAIN requests : requests[r].pc # "done" })

\* a new message or request is taken up
Admit == Events < MaxEvents /\ Running < MaxRunning

Reload(h) == [kind |-> "reload", content |-> <<>>, by |-> h]
ResumeReply(h, content) == [kind |-> "resume", content |-> content, by |-> h]

\* ws.send(JSON.stringify(m)) on handler h's own connection, and on every one
SendBroadcast(h, m) == [c \in DOMAIN outbox |-> IF c \in closed THEN outbox[c] ELSE Append(outbox[c], m)]

\* ws.send(JSON.stringify(m)) on the connection of handler h: on a closed
\* connection send drops the message and returns 0
Send(h, m) ==
    IF handlers[h].conn \in closed THEN outbox
    ELSE [outbox EXCEPT ![handlers[h].conn] = Append(@, m)]

\* lines 98-110 with the test of line 101 left out: every object is an edit
MessageEntryPcNoTest(m) ==
    IF m.json # "object" THEN "threw"
    ELSE IF m.hasContents \/ ~m.resume THEN "writeTs"
    ELSE "readTs"

\* lines 98-120 with the test of line 116 ahead of the test of line 101
MessageEntryPcResumeFirst(m) ==
    IF m.json # "object" THEN "threw"
    ELSE IF m.resume THEN "readTs"
    ELSE IF m.hasContents THEN "writeTs"
    ELSE "done"

\* part_002 lines 98-110 and 116-120: parse, dispatch, run to the first await
MessageEntryPc(m) ==
    IF m.json # "object" THEN "threw"
    ELSE IF m.hasContents THEN "writeTs"
    ELSE IF m.resume THEN "readTs"
    ELSE "done"

Receive(c, m) ==
    /\ c \notin closed
    /\ handlers' = Append(handlers,
            Handler(c, m, MessageEntryPc(m),
                    IF IsEdit(m) THEN join(m.fileContents) ELSE <<>>))
    /\ UNCHANGED <<files, sessions, nextBag, outbox, requests, closed>>

\* a message arrives on an open connection
message(c, m) ==
    /\ Admit
    /\ Receive(c, m)
    /\ UNCHANGED clientVars

\* line 110: the write opens script.ts
OpenSource(h) ==
    /\ handlers[h].pc = "writeTs"
    /\ files' = BunOpen(files, Path(handlers[h].msg.user, "script.ts"))
    /\ handlers' = [handlers EXCEPT ![h].pc = "writingTs"]
    /\ UNCHANGED <<sessions, nextBag, outbox, requests, closed, clientVars>>

\* line 110 takes effect; line 111 runs; line 112 is issued
WriteSource(h) ==
    /\ handlers[h].pc = "writingTs"
    /\ files' = BunWrite(files, Path(handlers[h].msg.user, "script.ts"), handlers[h].code)
    /\ handlers' = [handlers EXCEPT ![h].pc = "writeJs",
                                    ![h].code = transpile(handlers[h].code),
                                    ![h].wrote = @ \cup {Path(handlers[h].msg.user, "script.ts")}]
    /\ UNCHANGED <<sessions, nextBag, outbox, requests, closed, clientVars>>

\* line 112: the write opens script.js
OpenArtifact(h) ==
    /\ handlers[h].pc = "writeJs"
    /\ files' = BunOpen(files, Path(handlers[h].msg.user, "script.js"))
    /\ handlers' = [handlers EXCEPT ![h].pc = "writingJs"]
    /\ UNCHANGED <<sessions, nextBag, outbox, requests, closed, clientVars>>

\* line 112 takes effect
WriteArtifact(h) ==
    /\ handlers[h].pc = "writingJs"
    /\ files' = BunWrite(files, Path(handlers[h].msg.user, "script.js"), handlers[h].code)
    /\ handlers' = [handlers EXCEPT ![h].pc = "reload",
                                    ![h].wrote = @ \cup {Path(handlers[h].msg.user, "script.js")}]
    /\ UNCHANGED <<sessions, nextBag, outbox, requests, closed, clientVars>>

\* line 113 as a send that waits for an open connection
SendReloadWhenOpen(h) ==
    /\ handlers[h].pc = "reload"
    /\ handlers[h].conn \notin closed
    /\ outbox' = Send(h, Reload(h))
    /\ handlers' = [handlers EXCEPT ![h].pc = IF handlers[h].msg.resume THEN "readTs" ELSE "done",
                                    ![h].reloads = @ + 1]
    /\ UNCHANGED <<files, sessions, nextBag, requests, closed, clientVars>>

\* line 113, then the test of line 116 and the read of line 120 is issued
SendReload(h) ==
    /\ handlers[h].pc = "reload"
    /\ outbox' = Send(h, Reload(h))
    /\ handlers' = [handlers EXCEPT ![h].pc = IF handlers[h].msg.resume THEN "readTs" ELSE "done",
                                    ![h].reloads = @ + 1]
    /\ UNCHANGED <<files, sessions, nextBag, requests, closed, clientVars>>

\* line 120 as a read that creates the file it does not find
ReadSourceCreates(h) ==
    /\ handlers[h].pc = "readTs"
    /\ LET p == Path(handlers[h].msg.userId, "script.ts") IN
       /\ handlers' = [handlers EXCEPT ![h].pc = "reply", ![h].code = files[p].text]
       /\ files' = IF files[p].exists THEN files ELSE BunWrite(files, p, <<>>)
    /\ UNCHANGED <<sessions, nextBag, outbox, requests, closed, clientVars>>

\* line 120 takes effect: the text of script.ts, or a rejection when there is no file
ReadSource(h) ==
    /\ handlers[h].pc = "readTs"
    /\ LET f == files[Path(handlers[h].msg.userId, "script.ts")] IN
       handlers' = [handlers EXCEPT ![h].pc = IF f.exists THEN "reply" ELSE "threw",
                                    ![h].code = f.text]
    /\ UNCHANGED <<files, sessions, nextBag, outbox, requests, closed, clientVars>>

\* line 121
SendResume(h) ==
    /\ handlers[h].pc = "reply"
    /\ outbox' = Send(h, ResumeReply(h, split(handlers[h].code)))
    /\ handlers' = [handlers EXCEPT ![h].pc = "done", ![h].replies = @ + 1]
    /\ UNCHANGED <<files, sessions, nextBag, requests, closed, clientVars>>


----------------------------------------------------------------------------
(* The exec draft, src/src/index.ts lines 102-115 *)

\* lines 103-110: parse, read the fields, join, run to the await of Bun.write
ExecEntryPc(m) ==
    IF m.json # "object" \/ ~m.hasContents THEN "threw" ELSE "execWriteTs"

execMessage(c, m) ==
    /\ Admit
    /\ c \notin closed
    /\ handlers' = Append(handlers,
            Handler(c, m, ExecEntryPc(m),
                    IF IsEdit(m) THEN join(m.fileContents) ELSE <<>>))
    /\ UNCHANGED <<files, sessions, nextBag, outbox, requests, closed, clientVars>>

\* line 110: the write opens script.ts
ExecOpenSource(h) ==
    /\ handlers[h].pc = "execWriteTs"
    /\ files' = BunOpen(files, Path(handlers[h].msg.user, "script.ts"))
    /\ handlers' = [handlers EXCEPT ![h].pc = "execWritingTs"]
    /\ UNCHANGED <<sessions, nextBag, outbox, requests, closed, clientVars>>

\* line 110 takes effect
ExecWriteSource(h) ==
    /\ handlers[h].pc = "execWritingTs"
    /\ files' = BunWrite(files, Path(handlers[h].msg.user, "script.ts"), handlers[h].code)
    /\ handlers' = [handlers EXCEPT ![h].pc = "exec",
                                    ![h].wrote = @ \cup {Path(handlers[h].msg.user, "script.ts")}]
    /\ UNCHANGED <<sessions, nextBag, outbox, requests, closed, clientVars>>

\* lines 111-114: exec starts tsc and returns at once; the reload is sent
ExecAndReload(h) ==
    /\ handlers[h].pc = "exec"
    /\ outbox' = Send(h, Reload(h))
    /\ handlers' = [handlers EXCEPT ![h].pc = "done", ![h].tsc = "spawned",
                                    ![h].reloads = @ + 1]
    /\ UNCHANGED <<files, sessions, nextBag, requests, closed, clientVars>>

\* the tsc process of line 111 reads script.ts as it is when it gets to it; it
\* emits for every input (noEmitOnError is off by default)
TscRead(h) ==
    /\ handlers[h].tsc = "spawned"
    /\ handlers' = [handlers EXCEPT ![h].tsc = "compiled",
            ![h].out = transpile(files[Path(handlers[h].msg.user, "script.ts")].text)]
    /\ UNCHANGED <<files, sessions, nextBag, outbox, requests, closed, clientVars>>

\* the tsc process opens --outfile script.js
TscOpen(h) ==
    /\ handlers[h].tsc = "compiled"
    /\ files' = BunOpen(files, Path(handlers[h].msg.user, "script.js"))
    /\ handlers' = [handlers EXCEPT ![h].tsc = "writing"]
    /\ UNCHANGED <<sessions, nextBag, outbox, requests, closed, clientVars>>

\* the tsc process writes script.js and exits
TscWrite(h) ==
    /\ handlers[h].tsc = "writing"
    /\ files' = BunWrite(files, Path(handlers[h].msg.user, "script.js"), handlers[h].out)
    /\ handlers' = [handlers EXCEPT ![h].tsc = "exited"]
    /\ UNCHANGED <<sessions, nextBag, outbox, requests, closed, clientVars>>

----------------------------------------------------------------------------
(* fetch, part_002 lines 30-96 (index.ts lines 28-100 are the same) *)

\* The text of a cookie header is a sequence whose elements are the characters
\* ";", "=" and " " and the words between them (a name or a value without
\* these characters is one word); <<>> is no header.
NoHeader == <<>>
CookieT1 == <<"sessionId", "=", "t1">>
CookieT1T2 == <<"sessionId", "=", "t1", ";", " ", "sessionId", "=", "t2">>

\* The pool self.crypto.randomUUID() draws from
UUIDs == <<"uuid-1", "uuid-2", "uuid-3", "uuid-4", "uuid-5", "uuid-6">>

Req(cookie, upgrade, url) == [cookie |-> cookie, upgrade |-> upgrade, url |-> url]

\* A URL is its '/'-separated segments after the host: "/" is <<"">>.
Reqs ==
    { Req(c, FALSE, <<"">>) : c \in {NoHeader, CookieT1} }
    \cup { Req(CookieT1, FALSE, <<"preview", "u1", "script.js">>) }
    \cup { Req(NoHeader, FALSE, u) :
                u \in { <<"preview">> \o userId \o <<"script.js">>,
                        <<"preview">> \o userId \o <<"">>,
                        <<"script", "ws.js">> } }
    \cup { Req(CookieT1T2, FALSE, <<"">>), Req(NoHeader, TRUE, <<"">>) }

\* String.prototype.split(sep), scanning with the current piece in cur
RECURSIVE splitOnFrom(_, _, _)
splitOnFrom(text, sep, cur) ==
    IF text = <<>> THEN <<cur>>
    ELSE IF Head(text) = sep THEN <<cur>> \o splitOnFrom(Tail(text), sep, <<>>)
    ELSE splitOnFrom(Tail(text), sep, Append(cur, Head(text)))

splitOn(text, sep) == splitOnFrom(text, sep, <<>>)

\* String.prototype.trim()
RECURSIVE trim(_)
trim(text) ==
    IF text = <<>> THEN text
    ELSE IF Head(text) = " " THEN trim(Tail(text))
    ELSE IF text[Len(text)] = " " THEN trim(SubSeq(text, 1, Len(text) - 1))
    ELSE text

\* the string a trimmed piece spells: the empty string or its word
Word(part) == IF part = <<>> THEN "" ELSE part[1]

\* the value of a variable that a destructuring pattern found no element for
undefinedValue == "(undefined)"

\* line 14: const [name, value] = cookie.split('=').map(c => c.trim()): the
\* first two pieces, the value undefined when there is one piece only
cookiePair(cookie) ==
    LET parts == splitOn(cookie, "=") IN
    <<Word(trim(parts[1])),
      IF Len(parts) >= 2 THEN Word(trim(parts[2])) ELSE undefinedValue>>

\* parseCookies, lines 12-18: the header is split at ";", every piece gives a
\* name and a value, and cookies[name] = value is done piece after piece, so a
\* later piece overrides an earlier one of the same name
parseCookies(cookieString) ==
    LET pieces == splitOn(cookieString, ";")
        pairs == [i \in DOMAIN pieces |-> cookiePair(pieces[i])]
    IN  [n \in { pairs[i][1] : i \in DOMAIN pairs } |->
            LET last == CHOOSE i \in DOMAIN pairs :
                            /\ pairs[i][1] = n
                            /\ \A j \in DOMAIN pairs : pairs[j][1] = n => j <= i
            IN  pairs[last][2]]

\* lines 34-38: the cookies of a request, none when it has no cookie header
RequestCookies(req) ==
    IF req.cookie = NoHeader THEN [n \in {} |-> ""] ELSE parseCookies(req.cookie)

\* self.crypto.randomUUID(): a value no earlier call returned.  The values of the
\* pool are interchangeable, so the least unused one stands for all of them.
RandomUUID(reg) ==
    LET fresh == { i \in DOMAIN UUIDs : UUIDs[i] \notin DOMAIN reg } IN
    { UUIDs[i] : i \in { j \in fresh : \A k \in fresh : j <= k } }

\* line 40: cookies["sessionId"] ?? self.crypto.randomUUID()
SessionId(cookies, uuid) ==
    IF "sessionId" \in DOMAIN cookies /\ cookies["sessionId"] # undefinedValue
    THEN cookies["sessionId"] ELSE uuid

\* line 42 without its test: sessions[sessionId] = {} on every request
ResolveUnguarded(reg, sessionId, bag) ==
    [t \in DOMAIN reg \cup {sessionId} |-> IF t = sessionId THEN bag ELSE reg[t]]

\* line 42 on a registry that keeps the bag of the latest unknown token only
ResolveForgetful(reg, sessionId, bag) ==
    IF sessionId \in DOMAIN reg THEN reg ELSE [t \in {sessionId} |-> bag]

\* line 42: if (!sessions[sessionId]) sessions[sessionId] = {}
Resolve(reg, sessionId, bag) ==
    IF sessionId \in DOMAIN reg THEN reg
    ELSE [t \in DOMAIN reg \cup {sessionId} |-> IF t = sessionId THEN bag ELSE reg[t]]

NoCookie == "none"

Response(status, body, cookie) == [status |-> status, body |-> body, setCookie |-> cookie]

NoResponse == Response(0, <<>>, NoCookie)

\* line 51: `sessionId=${sessionId};SameSite=Strict`, as its pairs
SetCookie(sessionId) == << <<"sessionId", sessionId>>, <<"SameSite", "Strict">> >>

\* lines 54-56: the last segment of the URL, index.html when it is empty
RequestedFile(url) ==
    IF url[Len(url)] = "" THEN "index.html" ELSE url[Len(url)]

\* line 58 on a folder taken from the URL: preview/<segments before the last>/
PreviewPathInNamedFolder(url) == Path(SubSeq(url, 2, Len(url) - 1), RequestedFile(url))

\* line 26 and line 58: `${previewFolder}${requestedFile}`
PreviewPath(url) == Path(userId, RequestedFile(url))

FileAt(path) == IF path \in DOMAIN files THEN files[path] ELSE NoFile

\* lines 46-95 after the session is resolved: the response, or the await of
\* line 60 for a /preview path
Route(req, sessionId) ==
    IF req.upgrade THEN [pc |-> "done", resp |-> Response(101, <<>>, NoCookie)]
    ELSE IF req.url[1] = "preview" THEN [pc |-> "exists", resp |-> NoResponse]
    ELSE IF req.url[1] \in {"script", "style"}
         THEN [pc |-> "done", resp |-> Response(200, <<"static">>, NoCookie)]
    ELSE IF req.url = <<"">> THEN [pc |-> "done", resp |-> Response(200, <<"index">> \o userId, SetCookie(sessionId))]
    ELSE [pc |-> "done", resp |-> Response(200, <<"Bink bonk">>, NoCookie)]

\* lines 30-60: one run from the request to the response or the first await.
\* isNew: line 42 created the bag; session: the bag of line 44.
Serve(req) ==
    /\ LET cookies == RequestCookies(req) IN
       \E uuid \in RandomUUID(sessions) :
          LET sessionId == SessionId(cookies, uuid)
              reg == Resolve(sessions, sessionId, nextBag)
              isNew == reg[sessionId] = nextBag
              r == Route(req, sessionId)
          IN  /\ sessions' = reg
              /\ nextBag' = IF isNew THEN nextBag + 1 ELSE nextBag
              /\ requests' = Append(requests,
                    [req |-> req, sessionId |-> sessionId, isNew |-> isNew,
                     session |-> reg[sessionId], pc |-> r.pc, resp |-> r.resp])
    /\ outbox' = IF req.upgrade THEN Append(outbox, <<>>) ELSE outbox
    /\ UNCHANGED <<files, handlers, closed>>

\* a request arrives
fetch(req) ==
    /\ Admit
    /\ Serve(req)
    /\ UNCHANGED clientVars

\* The websocket object of lines 97-124 has no close handler: when a connection
\* closes, no code of the server runs.
ClosesAndDestroys(c) ==
    /\ c \in DOMAIN outbox \ closed
    /\ closed' = closed \cup {c}
    /\ files' = [p \in DOMAIN files |->
                    IF \E h \in DOMAIN handlers :
                          handlers[h].conn = c /\ p[1] = Normalize(handlers[h].msg.user)
                    THEN NoFile ELSE files[p]]
    /\ UNCHANGED <<sessions, nextBag, handlers, outbox, requests, clientVars>>

Closes(c) ==
    /\ c \in DOMAIN outbox \ closed
    /\ closed' = closed \cup {c}
    /\ UNCHANGED <<files, sessions, nextBag, handlers, outbox, requests, clientVars>>

\* a connection closes
Close(c) == Events < MaxEvents /\ Closes(c)

\* line 60 as a test that creates the file it does not find
FileExistsCreates(r) ==
    /\ requests[r].pc = "exists"
    /\ requests' = [requests EXCEPT ![r].pc = "text"]
    /\ files' = IF FileAt(PreviewPath(requests[r].req.url)).exists THEN files
                ELSE BunWrite(files, PreviewPath(requests[r].req.url), <<>>)
    /\ UNCHANGED <<sessions, nextBag, handlers, outbox, closed, clientVars>>

\* line 60 takes effect: the 404 of line 67, or on to the read of line 61
FileExists(r) ==
    /\ requests[r].pc = "exists"
    /\ requests' = [requests EXCEPT
            ![r].pc = IF FileAt(PreviewPath(requests[r].req.url)).exists THEN "text" ELSE "done",
            ![r].resp = IF FileAt(PreviewPath(requests[r].req.url)).exists THEN NoResponse
                        ELSE Response(404, <<"404">>, NoCookie)]
    /\ UNCHANGED <<files, sessions, nextBag, handlers, outbox, closed, clientVars>>

\* line 61 takes effect: the response carries the file's text
FileText(r) ==
    /\ requests[r].pc = "text"
    /\ requests' = [requests EXCEPT
            ![r].pc = "done",
            ![r].resp = Response(200, FileAt(PreviewPath(requests[r].req.url)).text, NoCookie)]
    /\ UNCHANGED <<files, sessions, nextBag, handlers, outbox, closed, clientVars>>

----------------------------------------------------------------------------
\* The server with the pages of two tabs connected: each upgrade request came
\* without a cookie and left its session in the registry.
Init ==
    /\ files = [p \in (Users \cup {Undefined}) \X FileNames |->
                    IF p = Path(userId, "balder.js") THEN File(<<"B">>) ELSE NoFile]
    /\ requests = [c \in Conns |->
            [req |-> Req(NoHeader, TRUE, <<"">>), sessionId |-> UUIDs[c], isNew |-> TRUE,
             session |-> c, pc |-> "done", resp |-> Response(101, <<>>, NoCookie)]]
    /\ sessions = [t \in { UUIDs[c] : c \in Conns } |->
                        CHOOSE c \in Conns : UUIDs[c] = t]
    /\ nextBag = Cardinality(Conns) + 1
    /\ handlers = <<>>
    /\ outbox = [c \in Conns |-> <<>>]
    /\ closed = {}
    /\ clients = [c \in Conns |-> NewClient]
    /\ toServer = [c \in Conns |-> <<>>]

Next ==
    \/ \E a \in Arrivals : message(a[1], a[2])
    \/ \E h \in DOMAIN handlers : OpenSource(h)
    \/ \E h \in DOMAIN handlers : WriteSource(h)
    \/ \E h \in DOMAIN handlers : OpenArtifact(h)
    \/ \E h \in DOMAIN handlers : WriteArtifact(h)
    \/ \E h \in DOMAIN handlers : SendReload(h)
    \/ \E h \in DOMAIN handlers : ReadSource(h)
    \/ \E h \in DOMAIN handlers : SendResume(h)
    \/ \E req \in Reqs : fetch(req)
    \/ \E r \in DOMAIN requests : FileExists(r)
    \/ \E r \in DOMAIN requests : FileText(r)
    \/ \E c \in DOMAIN outbox : Close(c)

Spec == Init /\ [][Next]_vars

NextExec ==
    \/ \E a \in Arrivals : execMessage(a[1], a[2])
    \/ \E h \in DOMAIN handlers : ExecOpenSource(h)
    \/ \E h \in DOMAIN handlers : ExecWriteSource(h)
    \/ \E h \in DOMAIN handlers : ExecAndReload(h)
    \/ \E h \in DOMAIN handlers : TscRead(h)
    \/ \E h \in DOMAIN handlers : TscOpen(h)
    \/ \E h \in DOMAIN handlers : TscWrite(h)
    \/ \E req \in Reqs : fetch(req)
    \/ \E r \in DOMAIN requests : FileExists(r)
    \/ \E r \in DOMAIN requests : FileText(r)
    \/ \E c \in DOMAIN outbox : Close(c)

SpecExec == Init /\ [][NextExec]_vars

\* a resumption of handler h of the exec draft
ExecStep(h) ==
    /\ h \in DOMAIN handlers
    /\ (ExecOpenSource(h) \/ ExecWriteSource(h) \/ ExecAndReload(h))

\* The exec draft where the file system completes every write and the event
\* loop resumes every handler.  The tsc process of line 111 is started with no
\* timeout and is never killed: nothing makes it end.
SpecExecFair ==
    Init /\ [][NextExec]_vars /\ \A h \in 1..MaxEvents : WF_vars(ExecStep(h))

----------------------------------------------------------------------------
(* Cookie headers: requests for "/" and for a script under the headers a
   client can send *)

CookieHeaders ==
    { CookieT1,
      <<" ", "sessionId", " ", "=", " ", "t1", " ">>,
      <<"a", "=", "b", ";", " ", "sessionId", "=", "t1">>,
      <<"sessionId", "=", "t1", ";", " ", "a", "=", "b">>,
      CookieT1T2,
      <<"sessionId", "=", "t1", "=", "x">>,
      <<"sessionId", "=", "t1", ";", " ", "sessionId">>,
      <<"a", "=", "b">> }

CookieReqs ==
    { Req(h, FALSE, u) : h \in CookieHeaders, u \in { <<"">>, <<"script", "ws.js">> } }

NextCookies == \E req \in CookieReqs : fetch(req)

SpecCookies == Init /\ [][NextCookies]_vars

----------------------------------------------------------------------------
(* Unhandled rejections.  The message handler of part_002 has no try/catch and
   the websocket object no error handling, so a rejection of the read on line
   120 is an unhandled rejection.  What follows is the policy of the runtime:
   it reports the rejection and goes on (ReadSource), or it ends the process *)

\* line 120 rejects and the runtime ends the process: every connection closes
\* and no suspended handler is resumed
RejectionExits(h) ==
    /\ handlers[h].pc = "readTs"
    /\ ~files[Path(handlers[h].msg.userId, "script.ts")].exists
    /\ handlers' = [k \in DOMAIN handlers |->
            IF k = h THEN [handlers[k] EXCEPT !.pc = "threw"]
            ELSE IF Finished(handlers[k]) THEN handlers[k]
            ELSE [handlers[k] EXCEPT !.pc = "killed"]]
    /\ closed' = DOMAIN outbox
    /\ UNCHANGED <<files, sessions, nextBag, outbox, requests, clientVars>>

NextExit ==
    \/ \E a \in Arrivals : message(a[1], a[2])
    \/ \E h \in DOMAIN handlers : OpenSource(h)
    \/ \E h \in DOMAIN handlers : WriteSource(h)
    \/ \E h \in DOMAIN handlers : OpenArtifact(h)
    \/ \E h \in DOMAIN handlers : WriteArtifact(h)
    \/ \E h \in DOMAIN handlers : SendReload(h)
    \/ \E h \in DOMAIN handlers : ReadSource(h)
    \/ \E h \in DOMAIN handlers : RejectionExits(h)
    \/ \E h \in DOMAIN handlers : SendResume(h)

SpecExit == Init /\ [][NextExit]_vars

----------------------------------------------------------------------------
(* The echo draft, src/src/index.ts lines 120-207: the same session code, a
   set-cookie header built on line 159, and a handler that answers "Pong" *)

\* line 159: `sessionId=${sessionId}`, as its pairs
PongSetCookie(sessionId) == << <<"sessionId", sessionId>> >>

\* lines 166-199 after the session is resolved and the headers are built
PongRoute(req, sessionId) ==
    IF req.upgrade THEN [pc |-> "done", resp |-> Response(101, <<>>, NoCookie)]
    ELSE IF req.url[1] \in {"script", "style"}
         THEN [pc |-> "done", resp |-> Response(200, <<"static">>, NoCookie)]
    ELSE IF req.url[1] = "preview" THEN [pc |-> "pongText", resp |-> NoResponse]
    ELSE IF req.url = <<"">>
         THEN [pc |-> "done", resp |-> Response(200, <<"index">>, PongSetCookie(sessionId))]
    ELSE [pc |-> "done", resp |-> Response(200, <<"Bink bonk">>, NoCookie)]

\* lines 141-184: a request arrives and runs to its response or its await
pongFetch(req) ==
    /\ Admit
    /\ LET cookies == RequestCookies(req) IN
       \E uuid \in RandomUUID(sessions) :
          LET sessionId == SessionId(cookies, uuid)
              reg == Resolve(sessions, sessionId, nextBag)
              isNew == reg[sessionId] = nextBag
              r == PongRoute(req, sessionId)
          IN  /\ sessions' = reg
              /\ nextBag' = IF isNew THEN nextBag + 1 ELSE nextBag
              /\ requests' = Append(requests,
                    [req |-> req, sessionId |-> sessionId, isNew |-> isNew,
                     session |-> reg[sessionId], pc |-> r.pc, resp |-> r.resp])
    /\ outbox' = IF req.upgrade THEN Append(outbox, <<>>) ELSE outbox
    /\ UNCHANGED <<files, handlers, closed, clientVars>>

\* line 184 takes effect: the text of preview/index.html with the headers of
\* line 157-159, or the rejection of the read, which Bun answers with 500
PongPreviewText(r) ==
    /\ requests[r].pc = "pongText"
    /\ LET f == FileAt(<< <<>>, "index.html" >>) IN
       requests' = [requests EXCEPT
            ![r].pc = "done",
            ![r].resp = IF f.exists
                        THEN Response(200, f.text, PongSetCookie(requests[r].sessionId))
                        ELSE Response(500, <<>>, NoCookie)]
    /\ UNCHANGED <<files, sessions, nextBag, handlers, outbox, closed, clientVars>>

\* lines 202-205: the message is echoed
pongMessage(c, m) ==
    /\ Admit
    /\ c \notin closed
    /\ handlers' = Append(handlers, Handler(c, m, "done", <<>>))
    /\ outbox' = [outbox EXCEPT
            ![c] = Append(@, [kind |-> "pong", content |-> m, by |-> Len(handlers) + 1])]
    /\ UNCHANGED <<files, sessions, nextBag, requests, closed, clientVars>>

NextPong ==
    \/ \E req \in Reqs : pongFetch(req)
    \/ \E r \in DOMAIN requests : PongPreviewText(r)
    \/ \E a \in Arrivals : pongMessage(a[1], a[2])

SpecPong == Init /\ [][NextPong]_vars

----------------------------------------------------------------------------
(* The server with the pages: static/js/monaco.js and static/js/ws.js in the
   two tabs, both of the hard-coded user *)

\* what the user may type into the editor
TypedTexts == { <<"a">>, <<"a", NL, "b">> }

\* the changes of the editor's content so far, over all tabs
Typed ==
    (clients[1].refetches - clients[1].reloadsSeen)
    + (clients[2].refetches - clients[2].reloadsSeen)

\* the cookie the browser holds for the tab of connection c
TabCookie(c) == <<"sessionId", "=", UUIDs[c]>>

\* what the preview frame loads: the artifact of the page's user
PreviewFrame(c) == Req(TabCookie(c), FALSE, <<"preview">> \o userId \o <<"script.js">>)

\* the edits typed and the frame loads requested so far
PageEvents == Typed + (Len(requests) - Cardinality(Conns))

\* ws.js lines 17-19: onopen sends the resume
ClientOpen(c) ==
    /\ ~clients[c].opened
    /\ clients' = [clients EXCEPT ![c].opened = TRUE]
    /\ toServer' = [toServer EXCEPT
            ![c] = Append(@, Msg("object", Undefined, FALSE, <<>>, TRUE, userId))]
    /\ UNCHANGED <<files, sessions, nextBag, handlers, outbox, requests, closed>>

\* monaco.js lines 20-24: the content changed to text; the frame is reloaded
\* (line 21) and the edit is sent (lines 22-23)
ClientType(c, text) ==
    /\ clients[c].opened
    /\ PageEvents < MaxEvents
    /\ text # clients[c].editor
    /\ clients' = [clients EXCEPT ![c].editor = text,
                                  ![c].refetches = @ + 1,
                                  ![c].pending = @ + 1]
    /\ toServer' = [toServer EXCEPT
            ![c] = Append(@, Msg("object", userId, TRUE, split(text), FALSE, Undefined))]
    /\ UNCHANGED <<files, sessions, nextBag, handlers, outbox, requests, closed>>

\* the oldest message the page of connection c has sent arrives
Deliver(c) ==
    /\ toServer[c] # <<>>
    /\ Running < MaxRunning
    /\ Receive(c, Head(toServer[c]))
    /\ toServer' = [toServer EXCEPT ![c] = Tail(@)]
    /\ UNCHANGED clients

\* ws.js lines 8-15: onmessage on the next message of the server; a reload
\* reloads the frame (line 10), a resume leaves the editor as it is (line 13
\* assigns to a name that is not the editor of monaco.js)
ClientReceive(c) ==
    /\ clients[c].seen < Len(outbox[c])
    /\ LET m == outbox[c][clients[c].seen + 1]
           reload == IF m.kind = "reload" THEN 1 ELSE 0
       IN  clients' = [clients EXCEPT ![c].seen = @ + 1,
                                      ![c].refetches = @ + reload,
                                      ![c].reloadsSeen = @ + reload,
                                      ![c].pending = @ + reload]
    /\ UNCHANGED <<files, sessions, nextBag, handlers, outbox, requests, closed, toServer>>

\* the frame of the page of connection c requests its address
PreviewFetch(c) ==
    /\ clients[c].pending > 0
    /\ PageEvents < MaxEvents
    /\ Running < MaxRunning
    /\ Serve(PreviewFrame(c))
    /\ clients' = [clients EXCEPT ![c].pending = @ - 1]
    /\ UNCHANGED toServer

NextClient ==
    \/ \E c \in Conns : ClientOpen(c)
    \/ \E c \in Conns : \E text \in TypedTexts : ClientType(c, text)
    \/ \E c \in Conns : Deliver(c)
    \/ \E h \in DOMAIN handlers : OpenSource(h)
    \/ \E h \in DOMAIN handlers : WriteSource(h)
    \/ \E h \in DOMAIN handlers : OpenArtifact(h)
    \/ \E h \in DOMAIN handlers : WriteArtifact(h)
    \/ \E h \in DOMAIN handlers : SendReload(h)
    \/ \E h \in DOMAIN handlers : ReadSource(h)
    \/ \E h \in DOMAIN handlers : SendResume(h)
    \/ \E c \in Conns : ClientReceive(c)
    \/ \E c \in Conns : PreviewFetch(c)
    \/ \E r \in DOMAIN requests : FileExists(r)
    \/ \E r \in DOMAIN requests : FileText(r)

SpecClient == Init /\ [][NextClient]_vars

----------------------------------------------------------------------------
(* Connections that drop: two tabs of user u1, either of which may close at
   any moment, also while a handler of one of its messages is suspended *)

TabArrivals ==
    { <<1, Msg("object", <<"u1">>, TRUE, << <<"a">> >>, FALSE, Undefined)>>,
      <<1, Msg("object", Undefined, FALSE, <<>>, TRUE, <<"u1">>)>>,
      <<2, Msg("object", <<"u1">>, TRUE, TwoLines, FALSE, Undefined)>>,
      <<2, Msg("object", Undefined, FALSE, <<>>, TRUE, <<"u1">>)>> }

\* a message of a tab arrives
tabMessage(c, m) ==
    /\ Len(handlers) < MaxEvents
    /\ Running < MaxRunning
    /\ Receive(c, m)
    /\ UNCHANGED clientVars

\* a resumption of handler h: the operation it awaits completes and it runs on
HandlerStep(h) ==
    /\ h \in DOMAIN handlers
    /\ \/ OpenSource(h) \/ WriteSource(h) \/ OpenArtifact(h) \/ WriteArtifact(h)
       \/ SendReload(h) \/ ReadSource(h) \/ SendResume(h)

NextDrop ==
    \/ \E a \in TabArrivals : tabMessage(a[1], a[2])
    \/ \E h \in DOMAIN handlers : OpenSource(h)
    \/ \E h \in DOMAIN handlers : WriteSource(h)
    \/ \E h \in DOMAIN handlers : OpenArtifact(h)
    \/ \E h \in DOMAIN handlers : WriteArtifact(h)
    \/ \E h \in DOMAIN handlers : SendReload(h)
    \/ \E h \in DOMAIN handlers : ReadSource(h)
    \/ \E h \in DOMAIN handlers : SendResume(h)
    \/ \E c \in DOMAIN outbox : Closes(c)

\* the file system completes every operation it was given and the event loop
\* resumes every handler whose await has settled
SpecDrop ==
    Init /\ [][NextDrop]_vars /\ \A h \in 1..MaxEvents : WF_vars(HandlerStep(h))

----------------------------------------------------------------------------
(* Properties *)

\* every message the server has sent
Sent == UNION { { outbox[c][i] : i \in DOMAIN outbox[c] } : c \in DOMAIN outbox }

Max(S) == CHOOSE n \in S : \A k \in S : k <= n

\* the earlier handlers of Edit Messages for user u
EditsBefore(r, u) ==
    { e \in 1..(r - 1) : IsEdit(handlers[e].msg) /\ handlers[e].msg.user = u }

\* the text an edit message asks to store, and what the compiler makes of it
SourceOf(m) == join(m.fileContents)
ArtifactOf(m) == transpile(SourceOf(m))

IsPreview(req) == ~req.upgrade /\ req.url[1] = "preview"

\* the user a preview URL names, and the file: /preview/<userId>/<fileName>
UrlUser(url) == SubSeq(url, 2, Len(url) - 1)
PreviewPathOfUrlUser(url) == Path(UrlUser(url), RequestedFile(url))

\* C1: a Resume Message for u that arrives when every earlier handler has
\* finished is answered with exactly the lines of the last Edit Message for u.
C1_ResumeReturnsLastEdit ==
    \A r \in DOMAIN handlers :
        LET m == handlers[r].msg
            edits == EditsBefore(r, m.userId)
        IN  (/\ IsResume(m) /\ ~IsEdit(m)
             /\ handlers[r].idle
             /\ edits # {}
             /\ Finished(handlers[r]))
            => \E reply \in Sent :
                    /\ reply.kind = "resume"
                    /\ reply.by = r
                    /\ reply.content = handlers[Max(edits)].msg.fileContents

\* C2: in the step that emits the Reload Message of an edit, the stored artifact
\* is the compiler output for that edit's source.
C2_ReloadAfterPublish ==
    [][\A h \in DOMAIN handlers :
          handlers'[h].reloads > handlers[h].reloads
          => files'[Path(handlers[h].msg.user, "script.js")] = File(ArtifactOf(handlers[h].msg))]_vars

\* C3: an edit whose source has a syntax error never writes the artifact and
\* never emits a Reload Message, and once it has finished its raw source is stored.
C3_FailedCompileKeepsArtifact ==
    \A h \in DOMAIN handlers :
        LET m == handlers[h].msg IN
        (IsEdit(m) /\ HasSyntaxError(SourceOf(m)))
        => /\ handlers[h].reloads = 0
           /\ Path(m.user, "script.js") \notin handlers[h].wrote
           /\ Finished(handlers[h]) => Path(m.user, "script.ts") \in handlers[h].wrote

\* C4: when two edits for one user have both finished, and no other edit for the
\* user is running, the artifact is the compile output of the second.
C4_LastEditWins ==
    \A e1, e2 \in DOMAIN handlers :
        (/\ e1 < e2
         /\ IsEdit(handlers[e1].msg) /\ IsEdit(handlers[e2].msg)
         /\ handlers[e1].msg.user = handlers[e2].msg.user
         /\ Finished(handlers[e1]) /\ Finished(handlers[e2])
         /\ EditsBefore(Len(handlers) + 1, handlers[e2].msg.user) \subseteq 1..e2)
        => files[Path(handlers[e2].msg.user, "script.js")] = File(ArtifactOf(handlers[e2].msg))

\* C5: a Resume Message for a user with no stored source ends in a resume reply
\* carrying the empty or the default line sequence, never in an error.
C5_ResumeWithoutSource ==
    \A r \in DOMAIN handlers :
        LET m == handlers[r].msg IN
        (/\ IsResume(m) /\ ~IsEdit(m)
         /\ Finished(handlers[r])
         /\ ~files[Path(m.userId, "script.ts")].exists)
        => /\ handlers[r].pc = "done"
           /\ \E reply \in Sent :
                /\ reply.kind = "resume" /\ reply.by = r
                /\ reply.content \in { <<>>, << <<>> >> }

\* C6: a finished preview fetch for user u and file script.js is a 404 when u has
\* no artifact, and a 200 carries the compiler output of an edit for u.
C6_PreviewAfterCompile ==
    \A r \in DOMAIN requests :
        LET q == requests[r].req IN
        (IsPreview(q) /\ requests[r].pc = "done" /\ q.url[Len(q.url)] = "script.js")
        => /\ ~files[Path(UrlUser(q.url), "script.js")].exists => requests[r].resp.status = 404
           /\ requests[r].resp.status = 200
                => \E h \in DOMAIN handlers :
                      /\ IsEdit(handlers[h].msg)
                      /\ handlers[h].msg.user = UrlUser(q.url)
                      /\ requests[r].resp.body = ArtifactOf(handlers[h].msg)

\* C7: the step that answers a preview fetch answers from the workspace of the
\* user named in the request path: 404 when that user has no such file, the
\* file's text otherwise.
C7_PreviewServesNamedUser ==
    [][\A r \in DOMAIN requests :
          (IsPreview(requests[r].req) /\ requests[r].pc # "done" /\ requests'[r].pc = "done")
          => LET f == FileAt(PreviewPathOfUrlUser(requests[r].req.url)) IN
             IF f.exists THEN requests'[r].resp.status = 200 /\ requests'[r].resp.body = f.text
             ELSE requests'[r].resp.status = 404]_vars

\* the token a request presents, as a set: empty when it presents none
Presented(req) ==
    LET cookies == RequestCookies(req) IN
    IF "sessionId" \in DOMAIN cookies /\ cookies["sessionId"] # undefinedValue
    THEN {cookies["sessionId"]} ELSE {}

\* C8: a request that made the server create a bag got a minted token, different
\* from any it presented; a request that did not presented the token it got; and
\* the token resolved is always a key of the registry.
C8_SessionResolve ==
    \A r \in DOMAIN requests :
        /\ requests[r].sessionId \in DOMAIN sessions
        /\ requests[r].isNew
            => /\ requests[r].sessionId \in { UUIDs[i] : i \in DOMAIN UUIDs }
               /\ requests[r].sessionId \notin Presented(requests[r].req)
        /\ ~requests[r].isNew => requests[r].sessionId \in Presented(requests[r].req)

\* C9: the registry holds for every request the bag that request obtained (no
\* bag is ever replaced), requests with the same token share one bag, and at
\* most one of them created it.
C9_NoDuplicateSession ==
    \A r1, r2 \in DOMAIN requests :
        /\ sessions[requests[r1].sessionId] = requests[r1].session
        /\ requests[r1].sessionId = requests[r2].sessionId
            => /\ requests[r1].session = requests[r2].session
               /\ (requests[r1].isNew /\ requests[r2].isNew) => r1 = r2

\* C9 witness: a second request presents the token of a session the first one
\* created, while the first is still suspended in its preview read.
C9_Witness ==
    \E r1, r2 \in DOMAIN requests :
        /\ r1 < r2
        /\ requests[r1].sessionId = requests[r2].sessionId
        /\ requests[r1].isNew /\ ~requests[r2].isNew
        /\ requests[r1].pc # "done"
        /\ Presented(requests[r1].req) = Presented(requests[r2].req)
        /\ Presented(requests[r1].req) # {}

\* a message that is no JSON, or an edit without user, or a resume without userId
Malformed(m) ==
    \/ m.json # "object"
    \/ m.hasContents /\ m.user = Undefined
    \/ m.resume /\ m.userId = Undefined

\* C10: a malformed message is dropped: its handler does not throw, writes no
\* file and sends nothing.
C10_MalformedDropped ==
    \A h \in DOMAIN handlers :
        Malformed(handlers[h].msg)
        => /\ handlers[h].pc # "threw"
           /\ handlers[h].wrote = {}
           /\ handlers[h].reloads = 0
           /\ handlers[h].replies = 0

----------------------------------------------------------------------------
(* Messages of unknown shape *)

\* JSON text that is neither an edit nor a resume
IsUnknown(m) == m.json = "object" /\ ~m.hasContents /\ ~m.resume

\* C11: a JSON message that is neither an edit nor a resume is a no-op: its
\* handler has ended when it has started, has written no file, started no
\* compile and sent nothing, and its arrival leaves the files, what was sent on
\* every connection and the set of closed connections as they were.
C11_UnknownShapeNoOp ==
    [][\A h \in DOMAIN handlers' :
          IsUnknown(handlers'[h].msg) =>
             /\ Finished(handlers'[h])
             /\ handlers'[h].wrote = {}
             /\ handlers'[h].tsc = "none"
             /\ handlers'[h].reloads = 0 /\ handlers'[h].replies = 0
             /\ h \notin DOMAIN handlers =>
                    files' = files /\ outbox' = outbox /\ closed' = closed]_vars

\* an unknown shape was handled, and a later edit on the same connection was
\* carried out to its reload
C11_Witness ==
    \E h, k \in DOMAIN handlers :
        /\ h < k
        /\ handlers[h].msg = UnknownShape
        /\ handlers[h].pc = "done"
        /\ handlers[k].conn = handlers[h].conn
        /\ IsEdit(handlers[k].msg)
        /\ handlers[k].pc = "done"
        /\ Len(outbox[handlers[k].conn]) = 1

----------------------------------------------------------------------------
(* Where a reload goes *)

\* how many times the reload of handler h was sent on connection c
ReloadsBy(h, c) == Cardinality({ i \in DOMAIN outbox[c] : outbox[c][i] = Reload(h) })

\* C15: the reload of an edit is sent on the connection the edit arrived on,
\* once, and on no other connection, whoever the other connections belong to.
C15_ReloadToOwnConnection ==
    \A h \in DOMAIN handlers :
        /\ \A c \in DOMAIN outbox : c # handlers[h].conn => ReloadsBy(h, c) = 0
        /\ ReloadsBy(h, handlers[h].conn) <= handlers[h].reloads
        /\ (handlers[h].reloads = 1 /\ handlers[h].conn \notin closed)
              => ReloadsBy(h, handlers[h].conn) = 1

\* two connections have each delivered an edit of user u1; the second one's
\* reload has been sent while the first connection is open
C15_Witness ==
    \E h, k \in DOMAIN handlers :
        /\ handlers[h].conn = 1 /\ handlers[k].conn = 2
        /\ IsEdit(handlers[h].msg) /\ IsEdit(handlers[k].msg)
        /\ handlers[h].msg.user = handlers[k].msg.user
        /\ handlers[k].reloads = 1
        /\ closed = {}
        /\ ReloadsBy(k, 2) = 1

----------------------------------------------------------------------------
(* What a preview fetch and a resume leave alone *)

\* the requests that arrive or move on in this step
Stepping(r) == r \notin DOMAIN requests \/ requests'[r] # requests[r]

\* C16: a preview fetch never changes a stored file: every step of a request
\* to a /preview path, from its arrival to its response, leaves every user's
\* source and artifact as they were.
C16_PreviewReadOnly ==
    [][\A r \in DOMAIN requests' :
          (IsPreview(requests'[r].req) /\ Stepping(r)) => files' = files]_vars

\* a preview fetch was answered with the text of a file an edit had stored
C16_Witness ==
    \E r \in DOMAIN requests : \E h \in DOMAIN handlers :
        /\ IsPreview(requests[r].req)
        /\ requests[r].pc = "done"
        /\ requests[r].resp.status = 200
        /\ handlers[h].pc = "done"
        /\ PreviewPath(requests[r].req.url) \in handlers[h].wrote
        /\ requests[r].resp.body = ArtifactOf(handlers[h].msg)

\* handler h takes a step of the resume branch (lines 116-122): it starts on a
\* message that is a resume and no edit, or it moves on from the read or the reply
ResumeStep(h) ==
    \/ h \notin DOMAIN handlers /\ IsResume(handlers'[h].msg) /\ ~IsEdit(handlers'[h].msg)
    \/ /\ h \in DOMAIN handlers
       /\ handlers[h].pc \in {"readTs", "reply"}
       /\ handlers'[h] # handlers[h]

\* C17: handling a Resume Message changes no stored state: every step of the
\* resume branch leaves every user's source and artifact and the session
\* registry as they were, and sends no reload on any connection.
C17_ResumeReadOnly ==
    [][\A h \in DOMAIN handlers' :
          ResumeStep(h) =>
             /\ files' = files
             /\ sessions' = sessions
             /\ \A c \in DOMAIN outbox : \A i \in DOMAIN outbox'[c] :
                    i > Len(outbox[c]) => outbox'[c][i].kind # "reload"]_vars

\* a resume was answered with the source an edit had stored
C17_Witness ==
    \E h, e \in DOMAIN handlers :
        /\ IsResume(handlers[h].msg) /\ ~IsEdit(handlers[h].msg)
        /\ handlers[h].pc = "done" /\ handlers[h].replies = 1
        /\ IsEdit(handlers[e].msg) /\ handlers[e].pc = "done"
        /\ handlers[e].msg.user = handlers[h].msg.userId
        /\ files[Path(handlers[h].msg.userId, "script.ts")] = File(SourceOf(handlers[e].msg))
        /\ ResumeReply(h, split(SourceOf(handlers[e].msg))) \in Sent

----------------------------------------------------------------------------
(* Connections that close *)

\* the last handler, when it is a resume that arrived with nothing in flight
\* and was answered, got the text that is stored
LastResumeGetsStored ==
    handlers # <<>> =>
        LET h == Len(handlers) IN
        (/\ IsResume(handlers[h].msg) /\ ~IsEdit(handlers[h].msg)
         /\ handlers[h].idle /\ handlers[h].pc = "done")
        => /\ files[Path(handlers[h].msg.userId, "script.ts")].exists
           /\ ~files[Path(handlers[h].msg.userId, "script.ts")].partial
           /\ handlers[h].conn \notin closed =>
                 \E i \in DOMAIN outbox[handlers[h].conn] :
                    /\ outbox[handlers[h].conn][i].by = h
                    /\ outbox[handlers[h].conn][i].kind = "resume"
                    /\ join(outbox[handlers[h].conn][i].content)
                         = files[Path(handlers[h].msg.userId, "script.ts")].text

\* C19: closing a connection destroys nothing that is stored: the step that
\* closes it leaves every user's source and artifact and every session bag as
\* they were, and a resume that arrives afterwards on another connection is
\* answered with the stored source.
C19_CloseKeepsState ==
    [][/\ closed' # closed => files' = files /\ sessions' = sessions
       /\ LastResumeGetsStored']_vars

\* tab 1 stored an edit and closed; a resume on tab 2 then got that source
C19_Witness ==
    \E e, h \in DOMAIN handlers :
        /\ e < h /\ h = Len(handlers)
        /\ handlers[e].conn = 1 /\ IsEdit(handlers[e].msg) /\ handlers[e].pc = "done"
        /\ 1 \in closed
        /\ handlers[h].conn = 2 /\ handlers[h].idle /\ handlers[h].pc = "done"
        /\ IsResume(handlers[h].msg)
        /\ handlers[h].msg.userId = handlers[e].msg.user
        /\ ResumeReply(h, split(SourceOf(handlers[e].msg))) \in Sent

\* handler h is in the middle of an edit whose connection has closed
DroppedMidEdit(h) ==
    /\ h \in DOMAIN handlers
    /\ IsEdit(handlers[h].msg)
    /\ handlers[h].conn \in closed
    /\ handlers[h].pc \in {"writeTs", "writingTs", "writeJs", "writingJs", "reload"}

\* handler h has stored the source and the artifact of its edit and has ended
Persisted(h) ==
    /\ h \in DOMAIN handlers
    /\ handlers[h].pc = "done"
    /\ handlers[h].wrote = { Path(handlers[h].msg.user, "script.ts"),
                             Path(handlers[h].msg.user, "script.js") }

\* C20: when the connection closes while the handler of an edit is suspended,
\* the handler still runs to its end and stores the source and the artifact of
\* that edit; the send of the reload on the closed connection changes no file.
C20_DropMidEditPersists ==
    /\ \A h \in 1..MaxEvents : DroppedMidEdit(h) ~> Persisted(h)
    /\ [][\A h \in DOMAIN handlers :
             (handlers[h].pc = "reload" /\ handlers'[h].pc # "reload") => files' = files]_vars

\* the connection closed before the reload of its edit was sent; the edit is
\* stored all the same
C20_Witness ==
    \E h \in DOMAIN handlers :
        /\ Persisted(h)
        /\ handlers[h].conn \in closed
        /\ handlers[h].reloads = 1
        /\ ReloadsBy(h, handlers[h].conn) = 0
        /\ files[Path(handlers[h].msg.user, "script.ts")] = File(SourceOf(handlers[h].msg))
        /\ files[Path(handlers[h].msg.user, "script.js")] = File(ArtifactOf(handlers[h].msg))

----------------------------------------------------------------------------
(* Reads that overlap writes, the order of edits, and other users' files *)

\* the texts being written to path p by writes that have opened it
InFlight(p) ==
    { handlers[h].code : h \in { k \in DOMAIN handlers :
          \/ handlers[k].pc = "writingTs" /\ Path(handlers[k].msg.user, "script.ts") = p
          \/ handlers[k].pc = "writingJs" /\ Path(handlers[k].msg.user, "script.js") = p } }

\* the complete contents a read of path p may return: what is stored, or while
\* a write is under way what was stored before it or what it is writing
Complete(p) ==
    IF files[p].partial THEN files[p].prev \cup InFlight(p) ELSE {files[p].text}

\* C13: a read that overlaps an edit's writes never sees a partially written
\* file: the text a resume reads from script.ts, and the text a preview fetch
\* reads, is the complete previous or the complete new content of the file.
C13_ReadsSeeCompleteFiles ==
    [][/\ \A h \in DOMAIN handlers :
             (handlers[h].pc = "readTs" /\ handlers'[h].pc = "reply")
                => handlers'[h].code \in Complete(Path(handlers[h].msg.userId, "script.ts"))
       /\ \A r \in DOMAIN requests :
             (requests[r].pc = "text" /\ requests'[r].pc = "done")
                => requests'[r].resp.body \in Complete(PreviewPath(requests[r].req.url))]_vars

\* C14: with one connection and one user, edits are stored in the order sent:
\* when every handler has ended, the stored source is the joined text of the
\* last edit.
C14_EditsStoredInOrder ==
    \A c \in DOMAIN outbox : \A u \in Users :
        (/\ handlers # <<>>
         /\ \A h \in DOMAIN handlers :
               /\ Finished(handlers[h])
               /\ handlers[h].conn = c
               /\ IsEdit(handlers[h].msg) /\ ~IsResume(handlers[h].msg)
               /\ handlers[h].msg.user = u)
        => files[Path(u, "script.ts")] = File(SourceOf(handlers[Len(handlers)].msg))

\* C18: workspaces are disjoint: a step of the handler of an edit for user u
\* leaves the source and the artifact of every other user as they were.
C18_WorkspacesDisjoint ==
    [][\A h \in DOMAIN handlers :
          (IsEdit(handlers[h].msg) /\ handlers'[h] # handlers[h])
             => \A v \in Users \cup {Undefined} : \A n \in {"script.ts", "script.js"} :
                   v # handlers[h].msg.user => files'[Path(v, n)] = files[Path(v, n)]]_vars

----------------------------------------------------------------------------
(* When the page reloads the preview frame *)

\* C12: the page reloads the preview frame only in response to a Reload
\* Message: every step in which a tab reloads the frame is the handling of a
\* reload the server sent on its connection.
C12_RefetchOnlyOnReload ==
    [][\A c \in Conns :
          clients'[c].refetches > clients[c].refetches
             => /\ clients[c].seen < Len(outbox[c])
                /\ outbox[c][clients[c].seen + 1].kind = "reload"
                /\ clients'[c].seen = clients[c].seen + 1]_vars

----------------------------------------------------------------------------
(* Artifacts and the text they come from *)

\* C21: an artifact exists only when an edit for its user has compiled
\* successfully: a stored script.js is the compiler's output for the source of
\* an edit that wrote to this path and whose source has no syntax error.
C21_ArtifactOnlyAfterSuccess ==
    \A u \in Users \cup {Undefined} :
        LET f == files[Path(u, "script.js")] IN
        (f.exists /\ ~f.partial)
        => \E h \in DOMAIN handlers :
              /\ IsEdit(handlers[h].msg)
              /\ Path(handlers[h].msg.user, "script.js") = Path(u, "script.js")
              /\ ~HasSyntaxError(SourceOf(handlers[h].msg))
              /\ f.text = ArtifactOf(handlers[h].msg)

\* two handlers in a row carry the same edit
SameEditTwice(h) ==
    /\ h + 1 \in DOMAIN handlers
    /\ IsEdit(handlers[h].msg) /\ ~IsResume(handlers[h].msg)
    /\ handlers[h + 1].msg = handlers[h].msg

\* C22: compiling is a pure function of the source text: when the same edit is
\* sent twice in a row, both handlers emit the same artifact text, and when the
\* first arrived with nothing in flight and both have ended, source and
\* artifact are what the first alone would have left.
C22_SameSourceSameArtifact ==
    \A h \in DOMAIN handlers :
        (SameEditTwice(h) /\ handlers[h].pc = "done" /\ handlers[h + 1].pc = "done")
        => /\ handlers[h].code = handlers[h + 1].code
           /\ (handlers[h].idle /\ h + 1 = Len(handlers))
                => /\ files[Path(handlers[h].msg.user, "script.ts")] = File(SourceOf(handlers[h].msg))
                   /\ files[Path(handlers[h].msg.user, "script.js")] = File(handlers[h].code)

\* the same edit was handled twice, the second after the first had ended
C22_Witness ==
    \E h \in DOMAIN handlers :
        /\ SameEditTwice(h)
        /\ handlers[h].pc = "done" /\ handlers[h + 1].pc = "done"
        /\ handlers[h].idle /\ handlers[h + 1].idle
        /\ handlers[h].reloads = 1 /\ handlers[h + 1].reloads = 1

\* C23: the lines of an edit come back from the store: splitting the joined
\* text of every line sequence on newline gives the line sequence.
C23_LinesRoundTrip ==
    \A h \in DOMAIN handlers :
        IsEdit(handlers[h].msg)
        => split(join(handlers[h].msg.fileContents)) = handlers[h].msg.fileContents

----------------------------------------------------------------------------
(* Compiles that do not end *)

\* the compile handler h started has ended
CompileEnded(h) == h \in DOMAIN handlers /\ handlers[h].tsc \in {"none", "exited"}

\* C24: every edit received comes to an end, its compile included, and while
\* the compile of an edit has not ended no reload has been sent for it.
C24_CompileEndsOrFails ==
    /\ \A h \in 1..MaxEvents :
          (h \in DOMAIN handlers /\ IsEdit(handlers[h].msg))
             ~> (CompileEnded(h) /\ Finished(handlers[h]))
    /\ [](\A h \in DOMAIN handlers : handlers[h].reloads > 0 => CompileEnded(h))

----------------------------------------------------------------------------
(* The session cookie and the registry *)

\* the value the pair of the given name has in a set-cookie header
CookieValues(header, name) ==
    IF header = NoCookie THEN {}
    ELSE { header[i][2] : i \in { j \in DOMAIN header : header[j][1] = name } }

\* every set-cookie header carries the resolved token and SameSite=Strict
CookieIsResolvedAndStrict ==
    \A r \in DOMAIN requests :
        requests[r].resp.setCookie # NoCookie
        => /\ CookieValues(requests[r].resp.setCookie, "sessionId") = {requests[r].sessionId}
           /\ CookieValues(requests[r].resp.setCookie, "SameSite") = {"Strict"}

\* C26: a response that sets the session cookie sets it to the token resolved
\* for its request and with SameSite=Strict, and a request that presents no
\* token, or a token the registry did not hold, has a session created under a
\* token the server minted.
C26_SessionCookie ==
    /\ CookieIsResolvedAndStrict
    /\ \A r \in DOMAIN requests :
          requests[r].isNew
          => /\ requests[r].sessionId \in { UUIDs[i] : i \in DOMAIN UUIDs }
             /\ requests[r].sessionId \notin Presented(requests[r].req)

\* C27: sessions are never destroyed: in every step each token of the registry
\* stays in it and keeps the bag it had.
C27_SessionsOnlyGrow ==
    [][\A t \in DOMAIN sessions :
          t \in DOMAIN sessions' /\ sessions'[t] = sessions[t]]_vars

\* two requests have each had a session created, after those of the two
\* connections, and all four are in the registry with their own bags
C27_Witness ==
    \E r1, r2 \in DOMAIN requests :
        /\ Cardinality(Conns) < r1 /\ r1 < r2
        /\ requests[r1].isNew /\ requests[r2].isNew
        /\ requests[r1].pc = "done" /\ requests[r2].pc = "done"
        /\ Cardinality(DOMAIN sessions) = Cardinality(Conns) + 2
        /\ sessions[requests[r1].sessionId] = requests[r1].session
        /\ sessions[requests[r2].sessionId] = requests[r2].session
        /\ requests[r1].session # requests[r2].session

----------------------------------------------------------------------------
(* One message at a time, matching pairs, and how many answers *)

\* C28: the messages of a connection are handled one at a time: when the
\* handler of a message starts, every handler of an earlier message of the same
\* connection has run to its end.
C28_OneAtATimePerConnection ==
    [][\A h \in DOMAIN handlers' :
          h \notin DOMAIN handlers
          => \A k \in DOMAIN handlers :
                handlers[k].conn = handlers'[h].conn => Finished(handlers[k])]_vars

\* the edits that write into the directory of user u
EditsInto(u) ==
    { h \in DOMAIN handlers :
        IsEdit(handlers[h].msg) /\ Normalize(handlers[h].msg.user) = Normalize(u) }

\* C29: when no edit is in progress, every edit written into a user's
\* directory was sent under that user's own identifier and the user's latest
\* edit compiled, the stored artifact is the compiler's output for the stored
\* source.
C29_ArtifactMatchesSource ==
    \A u \in Users \cup {Undefined} :
        (/\ EditsInto(u) # {}
         /\ \A h \in EditsInto(u) : handlers[h].msg.user = u
         /\ \A h \in DOMAIN handlers : Finished(handlers[h])
         /\ ~HasSyntaxError(SourceOf(handlers[Max(EditsInto(u))].msg)))
        => files[Path(u, "script.js")]
             = File(transpile(files[Path(u, "script.ts")].text))

\* the edits and the reloads of connection c
EditsOn(c) == { h \in DOMAIN handlers : handlers[h].conn = c /\ IsEdit(handlers[h].msg) }
ReloadsOn(c) == { i \in DOMAIN outbox[c] : outbox[c][i].kind = "reload" }

\* C30: an edit is answered with at most one reload; a message that is a
\* resume only is answered, when its handler has ended, with exactly one resume
\* reply and no reload; and a connection has been sent no more reloads than it
\* has delivered edits.
C30_AnswerCounts ==
    /\ \A h \in DOMAIN handlers :
          /\ handlers[h].reloads <= 1
          /\ (IsResume(handlers[h].msg) /\ ~IsEdit(handlers[h].msg))
                => /\ handlers[h].reloads = 0
                   /\ Finished(handlers[h]) => handlers[h].replies = 1
    /\ \A c \in DOMAIN outbox : Cardinality(ReloadsOn(c)) <= Cardinality(EditsOn(c))

----------------------------------------------------------------------------
(* Failures *)

\* handler h fails in this step: it ends by throwing
Fails(h) ==
    /\ handlers'[h].pc = "threw"
    /\ h \in DOMAIN handlers => handlers[h].pc # "threw"

----------------------------------------------------------------------------
(* Messages of both kinds *)

\* the handlers of a message that carries the line list and resume: true
BothKinds == { h \in DOMAIN handlers : IsEdit(handlers[h].msg) /\ IsResume(handlers[h].msg) }

\* no other message was in hand while handler h ran
Alone(h) == handlers[h].idle /\ (h < Len(handlers) => handlers[h + 1].idle)

\* the messages handler h has sent that reached connection c, as positions
SentBy(h, kind) ==
    { i \in DOMAIN outbox[handlers[h].conn] :
        outbox[handlers[h].conn][i].by = h /\ outbox[handlers[h].conn][i].kind = kind }

----------------------------------------------------------------------------
(* Tokens the clients were told *)

\* the requests that arrived after the start and have been answered
Answered == { r \in DOMAIN requests : r > Cardinality(Conns) /\ requests[r].pc = "done" }

\* C32: every answered request that made the server create a registry entry
\* has a response whose set-cookie header carries the token of that entry.
C32_NewTokenDelivered ==
    \A r \in Answered :
        requests[r].isNew
        => requests[r].sessionId \in CookieValues(requests[r].resp.setCookie, "sessionId")

----------------------------------------------------------------------------
(* The page and the server *)

\* the messages the page of connection c has sent so far that satisfy Kind:
\* those that arrived and those on their way
SentByPage(c, Kind(_)) ==
    Cardinality({ h \in DOMAIN handlers : handlers[h].conn = c /\ Kind(handlers[h].msg) })
    + Cardinality({ i \in DOMAIN toServer[c] : Kind(toServer[c][i]) })

\* the resume replies the page of connection c has handled
RepliesSeen(c) ==
    { i \in 1..clients[c].seen : outbox[c][i].kind = "resume" }

\* nothing is on its way: every message of a page has arrived, every handler
\* has ended and every message of the server has been handled by its page
Quiet ==
    /\ \A c \in Conns : toServer[c] = <<>> /\ clients[c].seen = Len(outbox[c])
    /\ \A h \in DOMAIN handlers : Finished(handlers[h])

\* a page has sent one resume when its connection is open and none before, and
\* as many edits as its editor's content changed by typing
PageSendsAsTyped ==
    \A c \in Conns :
        /\ SentByPage(c, IsResume) = (IF clients[c].opened THEN 1 ELSE 0)
        /\ SentByPage(c, IsEdit) = clients[c].refetches - clients[c].reloadsSeen

\* C33: a page sends one resume when its connection opens and one edit for
\* each change typed, handling a resume reply sends nothing, and when nothing
\* is on its way the editor of a page that was given a resume reply holds the
\* stored source of its user.
C33_EditorConverges ==
    /\ PageSendsAsTyped
    /\ \A c \in Conns :
          (Quiet /\ RepliesSeen(c) # {})
          => clients[c].editor = files[Path(userId, "script.ts")].text

----------------------------------------------------------------------------
(* Where the stored texts come from *)

\* the Edit Messages received so far for user u
EditsFor(u) == { h \in DOMAIN handlers : IsEdit(handlers[h].msg) /\ handlers[h].msg.user = u }

\* C34: the artifact of a user, when there is one, is the compiler's output
\* for the source of an Edit Message received for that user, and the source,
\* when there is one, is the joined lines of an Edit Message received for that
\* user.
C34_StoredComesFromEdits ==
    \A u \in Users \cup {Undefined} :
        /\ files[Path(u, "script.js")].exists
              => \E h \in EditsFor(u) : files[Path(u, "script.js")].text = ArtifactOf(handlers[h].msg)
        /\ files[Path(u, "script.ts")].exists
              => \E h \in EditsFor(u) : files[Path(u, "script.ts")].text = SourceOf(handlers[h].msg)

----------------------------------------------------------------------------
(* The /preview branch *)

\* request r is answered in this step
Answers(r) ==
    /\ requests'[r].pc = "done"
    /\ r \in DOMAIN requests => requests[r].pc # "done"

\* the file of the preview folder that the URL's last segment names
NamedInPreviewFolder(url) ==
    LET last == url[Len(url)]
        p == <<userId, IF last = "" THEN "index.html" ELSE last>>
    IN  IF p \in DOMAIN files THEN files[p] ELSE NoFile

\* C35: a request whose path starts with /preview is answered with the text
\* of the file of the preview folder named by the last segment of its URL,
\* index.html for an empty segment, when that file exists, and with status
\* 404 when it does not; no such request gets the answer of another route.
C35_PreviewServesLastSegment ==
    [][\A r \in DOMAIN requests' :
          (IsPreview(requests'[r].req) /\ Answers(r))
          => LET f == NamedInPreviewFolder(requests'[r].req.url) IN
             /\ f.exists => requests'[r].resp = Response(200, f.text, NoCookie)
             /\ ~f.exists => requests'[r].resp.status = 404]_vars

C35_Witness ==
    \E r \in Answered :
        /\ IsPreview(requests[r].req)
        /\ requests[r].resp.status = 200
        /\ requests[r].resp.body = ArtifactOf(Msg("object", userId, TRUE, << <<"a">> >>, FALSE, Undefined))

----------------------------------------------------------------------------
(* Cookie headers *)

\* A piece of a header is a name=value pair when it has a "=": the name is
\* what stands before the first "=", the value what stands after it.
IsPair(piece) == \E i \in DOMAIN piece : piece[i] = "="

FirstEq(piece) ==
    CHOOSE i \in DOMAIN piece : piece[i] = "=" /\ \A j \in 1..(i - 1) : piece[j] # "="

PairName(piece) == trim(SubSeq(piece, 1, FirstEq(piece) - 1))
PairValue(piece) == trim(SubSeq(piece, FirstEq(piece) + 1, Len(piece)))

\* the positions of the pairs named name among the pieces of a header
PairsNamed(pieces, name) ==
    { i \in DOMAIN pieces : IsPair(pieces[i]) /\ PairName(pieces[i]) = name }

\* the string is the text
Spells(string, text) == (text = <<>> /\ string = "") \/ text = <<string>>

\* C36: for the cookie header of every request, parseCookies holds under the
\* name of each pair the value of the last pair of that name, and the token
\* resolved for the request is the value of the last sessionId pair when the
\* header has one.
C36_ParseCookies ==
    \A r \in DOMAIN requests :
        LET header == requests[r].req.cookie
            pieces == splitOn(header, ";")
        IN  header # NoHeader
            => /\ \A i \in DOMAIN pieces :
                     IsPair(pieces[i])
                     => LET name == PairName(pieces[i])
                            last == Max(PairsNamed(pieces, name))
                        IN  Spells(parseCookies(header)[Word(name)], PairValue(pieces[last]))
               /\ PairsNamed(pieces, <<"sessionId">>) # {}
                     => Spells(requests[r].sessionId,
                               PairValue(pieces[Max(PairsNamed(pieces, <<"sessionId">>))]))

====
